---- MODULE Spec2Model ----
(***************************************************************************)
(* Poisson-disk subsampling of a point cloud: the octree (Octree.h,        *)
(* OctreeNode.h), the radius-r neighbourhood iterator (OctreeIterator.h)    *)
(* and the two selection engines (SampleSelection.h).                       *)
(*                                                                          *)
(* Lengths are integers: a length unit is fine enough that every            *)
(* coordinate, radius and cell side of the model is a whole number, so the  *)
(* double comparisons of the source are exact integer comparisons.          *)
(***************************************************************************)
EXTENDS Integers, Sequences, FiniteSets, TLC

(***************************************************************************)
(* Bounds of the model.                                                     *)
(***************************************************************************)
\* depth argument of the octree constructor (root depth D)
OctreeDepth == 2
\* side of a leaf cell in length units; the cube side is 2^D * LeafSize
LeafSize == 7
\* number of addPoint / addPoints calls
MaxAdds == 3

\* min corner of the bounding cube handed to initialize()
OctreeOrigin == <<1, 0, -1>>

\* offsets (from the cube's min corner) of the points that may be inserted
PointOffsets ==
  { <<6, 6, 6>>, <<7, 6, 6>>, <<7, 7, 7>>, <<14, 6, 6>> }

\* offsets of the points that addPoints() inserts as a batch of BatchLen
\* identical samples
BatchOffsets == { <<6, 6, 6>>, <<14, 6, 6>> }
BatchLen == 3

\* offsets of further query points that are not stored samples
QueryOffsets == { <<0, 0, 0>>, <<8, 6, 6>>, <<10, 6, 6>> }

NULL == 0

\* stands for the indeterminate value of a field no constructor writes
Uninit == -1

\* unsigned int arithmetic is done modulo UIntMod.  The source's unsigned
\* is 32 bits wide; the codes are only ever read through their low D bits,
\* so the model keeps 16 bits, which the model checker's integers can hold.
UIntMod == 65536

(***************************************************************************)
(* utilities.h                                                              *)
(***************************************************************************)
RECURSIVE pow2(_)
pow2(n) == IF n <= 0 THEN 1 ELSE 2 * pow2(n - 1)

dist2(p, q) ==
  (p[1] - q[1]) * (p[1] - q[1]) + (p[2] - q[2]) * (p[2] - q[2])
    + (p[3] - q[3]) * (p[3] - q[3])

(***************************************************************************)
(* <cmath>: floor(log2(num/den)) for a positive rational num/den.           *)
(***************************************************************************)
RECURSIVE FloorLog2Up(_, _, _)
FloorLog2Up(num, den, e) ==
  IF 2 * den * pow2(e) <= num THEN FloorLog2Up(num, den, e + 1) ELSE e

RECURSIVE FloorLog2Down(_, _, _)
FloorLog2Down(num, den, k) ==
  IF num * pow2(k) >= den THEN k ELSE FloorLog2Down(num, den, k + 1)

FloorLog2(num, den) ==
  IF num >= den THEN FloorLog2Up(num, den, 0)
  ELSE 0 - FloorLog2Down(num, den, 1)

\* (unsigned int)v for a double v that is a whole number: the value when it
\* is representable; a negative value is undefined behaviour, and the
\* builds either wrap it (x86) or saturate it to 0 (ARM).
CastUnsigned(v) == IF v >= 0 THEN {v} ELSE {0, UIntMod + v}

\* bit l of an unsigned code
Bit(cod, l) == (cod \div pow2(l)) % 2

(***************************************************************************)
(* State.                                                                   *)
(***************************************************************************)
VARIABLES
  octree,      \* TOctree: m_size, m_depth, m_binsize, m_origin, m_npoints,
               \*          m_root, m_nb_non_empty_cells
  node,        \* the heap of TOctreeNode objects, by address 1..n
  sample,      \* the Sample objects stored in the leaves' lists, by address
  iterator,    \* the TOctreeIterator of main(): m_radius, m_sqradius,
               \*          m_activeDepth
  selection,   \* TSampleSelection: m_radius, m_sqradius, m_nselected,
               \*          m_selected_samples
  dart,        \* locals of performDartThrowingSelection(): depth,
               \*          node_collection, i, and per worker j its cell,
               \*          its set m_all_samples, nuncovered, its output list
  access,      \* which sample flags each worker of the current pass has
               \*          read and written
  out,         \* which call ran last, with its arguments and results
  nadds,       \* number of addPoint / addPoints calls made
  pc           \* position of the main program

vars ==
  <<octree, node, sample, iterator, selection, dart, access, out, nadds, pc>>

(***************************************************************************)
(* OctreeNode.h                                                             *)
(***************************************************************************)
NoChildren == [i \in 0..7 |-> NULL]

\* TOctreeNode(origin, size, depth): m_nchild is not written
NewNode(origin, size, depth) ==
  [ m_origin |-> origin, m_size |-> size, m_depth |-> depth,
    m_xloc |-> 0, m_yloc |-> 0, m_zloc |-> 0,
    m_nchild |-> Uninit, m_parent |-> NULL, m_child |-> NoChildren,
    m_points |-> <<>>, m_npts |-> 0 ]

getChild(h, n, index) == h[n].m_child[index % 8]

\* initializeChild with setNchild() given the index without its x bit
initializeChild_DropsX(h, n, index, origin) ==
  LET c == Len(h) + 1
      child == [ NewNode(origin, h[n].m_size \div 2, h[n].m_depth - 1)
                   EXCEPT !.m_parent = n, !.m_nchild = index % 4 ]
  IN  Append([h EXCEPT ![n].m_child[index] = c], child)

\* initializeChild that gives the child its parent's size
initializeChild_FullSize(h, n, index, origin) ==
  LET c == Len(h) + 1
      child == [ NewNode(origin, h[n].m_size, h[n].m_depth - 1)
                   EXCEPT !.m_parent = n, !.m_nchild = index ]
  IN  Append([h EXCEPT ![n].m_child[index] = c], child)

\* initializeChild(index, origin) on node n of heap h; the child is the next
\* free address
initializeChild(h, n, index, origin) ==
  LET c == Len(h) + 1
      child == [ NewNode(origin, h[n].m_size \div 2, h[n].m_depth - 1)
                   EXCEPT !.m_parent = n, !.m_nchild = index ]
  IN  Append([h EXCEPT ![n].m_child[index] = c], child)

\* TOctreeNode::addPoint
NodeAddPoint(h, n, s) ==
  [h EXCEPT ![n].m_points = Append(@, s), ![n].m_npts = @ + 1]

(***************************************************************************)
(* Octree.h                                                                 *)
(***************************************************************************)
\* TOctree(origin, size, depth) followed by initialize(origin, size)
NewOctree(origin, size, depth) ==
  [ m_size |-> size, m_depth |-> depth, m_binsize |-> pow2(depth),
    m_origin |-> origin, m_npoints |-> 0, m_root |-> 1,
    m_nb_non_empty_cells |-> [k \in 0..(depth - 1) |-> 0] ]

\* the code of a coordinate taken without subtracting the octree's origin
Code_NoOrigin(oct, c, axis) == (c * oct.m_binsize) \div oct.m_size

\* (unsigned int)((pt - origin) / size * binsize)
Code(oct, c, axis) ==
  ((c - oct.m_origin[axis]) * oct.m_binsize) \div oct.m_size

\* the loop of TOctree::addPoint with the counter of the level increased on
\* every step of the descent, also when the child is already there
RECURSIVE AddPointDescend_CountsEveryStep(_, _, _, _, _)
AddPointDescend_CountsEveryStep(h, cnt, n, l, cod) ==
  IF h[n].m_depth = 0 THEN [heap |-> h, cells |-> cnt, leaf |-> n]
  ELSE
    LET x == Bit(cod[1], l)
        y == Bit(cod[2], l)
        z == Bit(cod[3], l)
        childIndex == 4 * x + 2 * y + z
        childDepth == h[n].m_depth - 1
        cnt2 == [cnt EXCEPT ![childDepth] = @ + 1]
    IN  IF getChild(h, n, childIndex) = NULL
        THEN
          LET childSize == h[n].m_size \div 2
              origin == h[n].m_origin
              childOrigin == << origin[1] + x * childSize,
                                origin[2] + y * childSize,
                                origin[3] + z * childSize >>
              h1 == initializeChild(h, n, childIndex, childOrigin)
              c == Len(h1)
              h2 == [h1 EXCEPT
                       ![c].m_xloc = h[n].m_xloc + x * pow2(childDepth),
                       ![c].m_yloc = h[n].m_yloc + y * pow2(childDepth),
                       ![c].m_zloc = h[n].m_zloc + z * pow2(childDepth)]
          IN  AddPointDescend_CountsEveryStep(h2, cnt2, c, l - 1, cod)
        ELSE AddPointDescend_CountsEveryStep(h, cnt2,
                                             getChild(h, n, childIndex),
                                             l - 1, cod)

\* the loop of TOctree::addPoint: from node n with branch bit l, returns the
\* heap, the per-level cell counters and the leaf reached
RECURSIVE AddPointDescend(_, _, _, _, _)
AddPointDescend(h, cnt, n, l, cod) ==
  IF h[n].m_depth = 0 THEN [heap |-> h, cells |-> cnt, leaf |-> n]
  ELSE
    LET x == Bit(cod[1], l)
        y == Bit(cod[2], l)
        z == Bit(cod[3], l)
        childIndex == 4 * x + 2 * y + z
    IN  IF getChild(h, n, childIndex) = NULL
        THEN
          LET childSize == h[n].m_size \div 2
              childDepth == h[n].m_depth - 1
              origin == h[n].m_origin
              childOrigin == << origin[1] + x * childSize,
                                origin[2] + y * childSize,
                                origin[3] + z * childSize >>
              h1 == initializeChild(h, n, childIndex, childOrigin)
              c == Len(h1)
              h2 == [h1 EXCEPT
                       ![c].m_xloc = h[n].m_xloc + x * pow2(childDepth),
                       ![c].m_yloc = h[n].m_yloc + y * pow2(childDepth),
                       ![c].m_zloc = h[n].m_zloc + z * pow2(childDepth)]
              cnt2 == [cnt EXCEPT ![childDepth] = @ + 1]
          IN  AddPointDescend(h2, cnt2, c, l - 1, cod)
        ELSE AddPointDescend(h, cnt, getChild(h, n, childIndex), l - 1, cod)

\* Sample(x, y, z)
NewSample(p) ==
  [ pos |-> p, m_selected |-> TRUE, m_covered |-> FALSE, m_ncovered |-> 0 ]

\* flat getNodes(depth, starting_node, nodes): the nodes pushed, in order
RECURSIVE getNodes(_, _, _)
RECURSIVE getNodesChildren(_, _, _, _)
getNodes(h, depth, n) ==
  IF h[n].m_depth = depth THEN <<n>>
  ELSE getNodesChildren(h, depth, n, 0)
getNodesChildren(h, depth, n, i) ==
  IF i > 7 THEN <<>>
  ELSE (IF getChild(h, n, i) # NULL
        THEN getNodes(h, depth, getChild(h, n, i)) ELSE <<>>)
       \o getNodesChildren(h, depth, n, i + 1)

(***************************************************************************)
(* OctreeIterator.h                                                         *)
(***************************************************************************)
\* TOctreeIterator(octree)
NewIterator(oct) ==
  LET r == oct.m_size \div pow2(oct.m_depth)
  IN  [ m_activeDepth |-> oct.m_depth, m_radius |-> r, m_sqradius |-> r * r ]

\* setDepth(depth): the iterator afterwards and the value returned
setDepth(it, oct, depth) ==
  IF depth <= oct.m_depth
  THEN LET r == oct.m_size \div pow2(depth)
       IN  [ it |-> [ m_activeDepth |-> depth, m_radius |-> r,
                      m_sqradius |-> r * r ],
             ret |-> TRUE ]
  ELSE [ it |-> it, ret |-> FALSE ]

\* m_octree->getDepth() - floor(log2(m_octree->getSize() / (2.0*m_radius)))
ActiveDepthOf(oct, radius) ==
  oct.m_depth - FloorLog2(oct.m_size, 2 * radius)

\* setR that writes the radius and the depth before it tests the radius
setR_AlwaysSets(it, oct, radius) ==
  { [ it |-> [ m_activeDepth |-> d, m_radius |-> radius,
               m_sqradius |-> radius * radius ],
      ret |-> radius < oct.m_size ] :
      d \in CastUnsigned(ActiveDepthOf(oct, radius)) }

\* setR(radius): the iterators the call can leave behind, each with the value
\* returned (more than one when the cast of a negative depth is undefined)
setR(it, oct, radius) ==
  IF radius < oct.m_size
  THEN { [ it |-> [ m_activeDepth |-> d, m_radius |-> radius,
                    m_sqradius |-> radius * radius ],
           ret |-> TRUE ] : d \in CastUnsigned(ActiveDepthOf(oct, radius)) }
  ELSE { [ it |-> it, ret |-> FALSE ] }

getXLeftCode(h, n) == (h[n].m_xloc - 1) % UIntMod
getXRightCode(h, n) == (h[n].m_xloc + pow2(h[n].m_depth)) % UIntMod
getYLeftCode(h, n) == (h[n].m_yloc - 1) % UIntMod
getYRightCode(h, n) == (h[n].m_yloc + pow2(h[n].m_depth)) % UIntMod
getZLeftCode(h, n) == (h[n].m_zloc - 1) % UIntMod
getZRightCode(h, n) == (h[n].m_zloc + pow2(h[n].m_depth)) % UIntMod

\* computeCode(point, codx, cody, codz)
computeCode(oct, point) ==
  << Code(oct, point[1], 1), Code(oct, point[2], 2), Code(oct, point[3], 3) >>

\* traverseToLevel(&node, xLocCode, yLocCode, zLocCode, k): the node where
\* the descent from n stops; l is the branch bit of the next step
\* the descent with the x and z bits of the child index exchanged
RECURSIVE traverseLoop_XZSwapped(_, _, _, _, _)
traverseLoop_XZSwapped(h, n, l, cod, k) ==
  IF h[n].m_depth > k
  THEN LET childIndex == 4 * Bit(cod[3], l) + 2 * Bit(cod[2], l)
                           + Bit(cod[1], l)
       IN  IF getChild(h, n, childIndex) # NULL
           THEN traverseLoop_XZSwapped(h, getChild(h, n, childIndex), l - 1,
                                       cod, k)
           ELSE n
  ELSE n

RECURSIVE traverseLoop(_, _, _, _, _)
traverseLoop(h, n, l, cod, k) ==
  IF h[n].m_depth > k
  THEN LET childIndex == 4 * Bit(cod[1], l) + 2 * Bit(cod[2], l)
                           + Bit(cod[3], l)
       IN  IF getChild(h, n, childIndex) # NULL
           THEN traverseLoop(h, getChild(h, n, childIndex), l - 1, cod, k)
           ELSE n
  ELSE n

traverseToLevel(h, n, cod, k) == traverseLoop(h, n, h[n].m_depth - 1, cod, k)

\* locatePointNode(point)
locatePointNode(oct, h, it, point) ==
  traverseToLevel(h, oct.m_root, computeCode(oct, point), it.m_activeDepth)

\* the test of explore() with <= for <
InBall_Closed(it, query, p) == dist2(query, p) <= it.m_sqradius

\* the test of explore() failing for a sample at the query point itself
InBall_Punctured(it, query, p) ==
  /\ 0 < dist2(query, p)
  /\ dist2(query, p) < it.m_sqradius

\* the test of explore() on one stored sample
InBall(it, query, p) == dist2(query, p) < it.m_sqradius

\* the samples of a leaf's list, from index i on, that pass the test
RECURSIVE exploreLeaf(_, _, _, _, _)
exploreLeaf(smp, it, pts, i, query) ==
  IF i > Len(pts) THEN <<>>
  ELSE (IF InBall(it, query, smp[pts[i]].pos) THEN <<pts[i]>> ELSE <<>>)
       \o exploreLeaf(smp, it, pts, i + 1, query)

\* explore(node, query_point, neighbors): the samples appended, in order
RECURSIVE explore(_, _, _, _, _)
RECURSIVE exploreChildren(_, _, _, _, _, _)
explore(h, smp, it, n, query) ==
  IF h[n].m_depth # 0 THEN exploreChildren(h, smp, it, n, query, 0)
  ELSE IF h[n].m_npts # 0 THEN exploreLeaf(smp, it, h[n].m_points, 1, query)
  ELSE <<>>
exploreChildren(h, smp, it, n, query, i) ==
  IF i > 7 THEN <<>>
  ELSE (IF getChild(h, n, i) # NULL
        THEN explore(h, smp, it, getChild(h, n, i), query) ELSE <<>>)
       \o exploreChildren(h, smp, it, n, query, i + 1)

\* the left guard with its first comparison turned round
PushLeft_Flipped(oct, h, it, qn, query, a) ==
  /\ query[a] - it.m_radius > h[qn].m_origin[a]
  /\ query[a] - it.m_radius > oct.m_origin[a]

\* the left guard without its comparison against the octree's origin
PushLeft_NoCubeTest(oct, h, it, qn, query, a) ==
  query[a] - it.m_radius < h[qn].m_origin[a]

\* the candidate codes of one axis: the node's own code, then the left
\* neighbour's, then the right neighbour's, under the guards of the source
PushLeft(oct, h, it, qn, query, a) ==
  /\ query[a] - it.m_radius < h[qn].m_origin[a]
  /\ query[a] - it.m_radius > oct.m_origin[a]

PushRight(oct, h, it, qn, query, a) ==
  /\ query[a] + it.m_radius > h[qn].m_origin[a] + h[qn].m_size
  /\ query[a] + it.m_radius < oct.m_origin[a] + oct.m_size

xlocList(oct, h, it, qn, query) ==
  <<h[qn].m_xloc>>
    \o (IF PushLeft(oct, h, it, qn, query, 1)
        THEN <<getXLeftCode(h, qn)>> ELSE <<>>)
    \o (IF PushRight(oct, h, it, qn, query, 1)
        THEN <<getXRightCode(h, qn)>> ELSE <<>>)

ylocList(oct, h, it, qn, query) ==
  <<h[qn].m_yloc>>
    \o (IF PushLeft(oct, h, it, qn, query, 2)
        THEN <<getYLeftCode(h, qn)>> ELSE <<>>)
    \o (IF PushRight(oct, h, it, qn, query, 2)
        THEN <<getYRightCode(h, qn)>> ELSE <<>>)

zlocList(oct, h, it, qn, query) ==
  <<h[qn].m_zloc>>
    \o (IF PushLeft(oct, h, it, qn, query, 3)
        THEN <<getZLeftCode(h, qn)>> ELSE <<>>)
    \o (IF PushRight(oct, h, it, qn, query, 3)
        THEN <<getZRightCode(h, qn)>> ELSE <<>>)

\* the candidate code triples in the order of the three nested loops
CandidateCodes(xs, ys, zs) ==
  [ t \in 1..(Len(xs) * Len(ys) * Len(zs)) |->
      << xs[((t - 1) \div (Len(ys) * Len(zs))) + 1],
         ys[(((t - 1) \div Len(zs)) % Len(ys)) + 1],
         zs[((t - 1) % Len(zs)) + 1] >> ]

\* the body of the nested loops for candidates t.. of cands, at level s
RECURSIVE lookInside(_, _, _, _, _, _, _, _)
lookInside(oct, h, smp, it, cands, t, s, query) ==
  IF t > Len(cands) THEN <<>>
  ELSE LET nd == traverseToLevel(h, oct.m_root, cands[t], s)
       IN  (IF nd # NULL /\ h[nd].m_depth = s
            THEN explore(h, smp, it, nd, query) ELSE <<>>)
           \o lookInside(oct, h, smp, it, cands, t + 1, s, query)

\* the level at which getNeighbors(query, query_node, .) searches
SearchLevel(h, it, qn) ==
  IF h[qn].m_depth = it.m_activeDepth THEN it.m_activeDepth
  ELSE h[qn].m_depth

\* getNeighbors(query, query_node, neighbors): the samples appended
getNeighborsAt(oct, h, smp, it, query, qn) ==
  lookInside(oct, h, smp, it,
             CandidateCodes(xlocList(oct, h, it, qn, query),
                            ylocList(oct, h, it, qn, query),
                            zlocList(oct, h, it, qn, query)),
             1, SearchLevel(h, it, qn), query)

\* getNeighbors(query, neighbors)
getNeighbors(oct, h, smp, it, query) ==
  getNeighborsAt(oct, h, smp, it, query, locatePointNode(oct, h, it, query))

\* containsOnly(query, query_node, exceptions): the same candidate cells as
\* getNeighbors; false as soon as an explored sample within the radius is
\* not one of the exceptions
containsOnlyAt(oct, h, smp, it, query, qn, exceptions) ==
  LET found == getNeighborsAt(oct, h, smp, it, query, qn)
  IN  \A t \in 1..Len(found) : found[t] \in exceptions

\* containsOnly(query, exceptions)
containsOnly(oct, h, smp, it, query, exceptions) ==
  containsOnlyAt(oct, h, smp, it, query,
                 locatePointNode(oct, h, it, query), exceptions)

(***************************************************************************)
(* OctreeIterator.h: getSortedNeighbors.  Neighbor_star_map is a            *)
(* std::map<double, T*>: a function from the squared distances present to   *)
(* one sample each; insert() leaves an entry that is already there alone.   *)
(***************************************************************************)
EmptyMap == << >>

\* neighbors.insert(pair<double, T*>(dist, s))
MapInsert(map, dist, s) ==
  IF dist \in DOMAIN map THEN map
  ELSE map @@ (dist :> s)

\* the loop of exploreSort() over a leaf's list, from index i on: the
\* pairs (dist, sample) handed to insert(), in order
RECURSIVE exploreSortLeaf(_, _, _, _, _)
exploreSortLeaf(smp, it, pts, i, query) ==
  IF i > Len(pts) THEN <<>>
  ELSE (IF dist2(query, smp[pts[i]].pos) < it.m_sqradius
        THEN << <<dist2(query, smp[pts[i]].pos), pts[i]>> >> ELSE <<>>)
       \o exploreSortLeaf(smp, it, pts, i + 1, query)

\* exploreSort(node, query_point, neighbors): the pairs handed to insert(),
\* in order
RECURSIVE exploreSort(_, _, _, _, _)
RECURSIVE exploreSortChildren(_, _, _, _, _, _)
exploreSort(h, smp, it, n, query) ==
  IF h[n].m_depth # 0 THEN exploreSortChildren(h, smp, it, n, query, 0)
  ELSE IF h[n].m_npts # 0
  THEN exploreSortLeaf(smp, it, h[n].m_points, 1, query)
  ELSE <<>>
exploreSortChildren(h, smp, it, n, query, i) ==
  IF i > 7 THEN <<>>
  ELSE (IF getChild(h, n, i) # NULL
        THEN exploreSort(h, smp, it, getChild(h, n, i), query) ELSE <<>>)
       \o exploreSortChildren(h, smp, it, n, query, i + 1)

\* the body of the nested loops of getSortedNeighbors for candidates t.. at
\* level s: the pairs handed to insert(), in order
RECURSIVE lookInsideSort(_, _, _, _, _, _, _, _)
lookInsideSort(oct, h, smp, it, cands, t, s, query) ==
  IF t > Len(cands) THEN <<>>
  ELSE LET nd == traverseToLevel(h, oct.m_root, cands[t], s)
       IN  (IF nd # NULL /\ h[nd].m_depth = s
            THEN exploreSort(h, smp, it, nd, query) ELSE <<>>)
           \o lookInsideSort(oct, h, smp, it, cands, t + 1, s, query)

\* the map after the first n of the pairs are inserted, in order
RECURSIVE insertAll(_, _, _)
insertAll(map, pairs, n) ==
  IF n = 0 THEN map
  ELSE MapInsert(insertAll(map, pairs, n - 1), pairs[n][1], pairs[n][2])

\* getSortedNeighbors(query, query_node, neighbors) on the map handed in:
\* the map afterwards and the value returned
getSortedNeighborsAt(oct, h, smp, it, query, qn, map) ==
  LET pairs == lookInsideSort(oct, h, smp, it,
                 CandidateCodes(xlocList(oct, h, it, qn, query),
                                ylocList(oct, h, it, qn, query),
                                zlocList(oct, h, it, qn, query)),
                 1, SearchLevel(h, it, qn), query)
      res == insertAll(map, pairs, Len(pairs))
  IN  [ neighbors |-> res, ret |-> Cardinality(DOMAIN res) ]

\* getSortedNeighbors(query, neighbors)
getSortedNeighbors(oct, h, smp, it, query, map) ==
  getSortedNeighborsAt(oct, h, smp, it, query,
                       locatePointNode(oct, h, it, query), map)

(***************************************************************************)
(* FileIO.cpp: saveContent                                                  *)
(***************************************************************************)
\* the loop of saveContent() over a leaf's list: a line for each selected
\* sample, and ncover increased by every sample's count
RECURSIVE saveLeaf(_, _, _, _)
saveLeaf(smp, pts, i, f) ==
  IF i > Len(pts) THEN f
  ELSE saveLeaf(smp, pts, i + 1,
         [ lines |-> IF smp[pts[i]].m_selected
                     THEN Append(f.lines, smp[pts[i]].pos) ELSE f.lines,
           ncover |-> f.ncover + smp[pts[i]].m_ncovered ])

\* saveContent(node, f, ncover)
RECURSIVE saveContent(_, _, _, _)
RECURSIVE saveContentChildren(_, _, _, _, _)
saveContent(h, smp, n, f) ==
  IF h[n].m_depth # 0 THEN saveContentChildren(h, smp, n, 0, f)
  ELSE IF h[n].m_npts # 0 THEN saveLeaf(smp, h[n].m_points, 1, f)
  ELSE f
saveContentChildren(h, smp, n, i, f) ==
  IF i > 7 THEN f
  ELSE saveContentChildren(h, smp, n, i + 1,
         IF getChild(h, n, i) # NULL
         THEN saveContent(h, smp, getChild(h, n, i), f) ELSE f)

(***************************************************************************)
(* Octree.h: the bucketed getNodes                                          *)
(***************************************************************************)
\* the values a read of an unwritten m_nchild can yield (the root's: no code
\* writes it): any unsigned value.  The model reads the first bucket index,
\* the last one, and 8, which stands for every value that is not an index of
\* the 8 buckets.  Only the listed nodes are read.
NChildValues(h, nodes) ==
  IF \E t \in 1..Len(nodes) : h[nodes[t]].m_nchild = Uninit
  THEN {0, 7, 8} ELSE {0}

EmptyBuckets == [b \in 0..7 |-> <<>>]

\* the while loop of the bucketed getNodes with every node put in bucket 0
RECURSIVE fillBuckets_OneBucket(_, _, _, _)
fillBuckets_OneBucket(h, nodes, g, coll) ==
  IF nodes = <<>> THEN [ok |-> TRUE, buckets |-> coll]
  ELSE LET nd == nodes[Len(nodes)]
           nchild == IF h[nd].m_nchild = Uninit THEN g ELSE 0
       IN  IF nchild \notin 0..7 THEN [ok |-> FALSE, buckets |-> coll]
           ELSE fillBuckets_OneBucket(h, SubSeq(nodes, 1, Len(nodes) - 1), g,
                                      [coll EXCEPT ![nchild] = Append(@, nd)])

\* the while loop of the bucketed getNodes keyed by the y and z bits only
RECURSIVE fillBuckets_ByYZ(_, _, _, _)
fillBuckets_ByYZ(h, nodes, g, coll) ==
  IF nodes = <<>> THEN [ok |-> TRUE, buckets |-> coll]
  ELSE LET nd == nodes[Len(nodes)]
           nchild == IF h[nd].m_nchild = Uninit THEN g ELSE h[nd].m_nchild % 4
       IN  IF nchild \notin 0..7 THEN [ok |-> FALSE, buckets |-> coll]
           ELSE fillBuckets_ByYZ(h, SubSeq(nodes, 1, Len(nodes) - 1), g,
                                 [coll EXCEPT ![nchild] = Append(@, nd)])

\* the while loop of the bucketed getNodes: nodes is popped from the back;
\* g is the value read from an unwritten m_nchild.  ok is FALSE when
\* node_collection[nchild] is indexed outside the 8 buckets.
RECURSIVE fillBuckets(_, _, _, _)
fillBuckets(h, nodes, g, coll) ==
  IF nodes = <<>> THEN [ok |-> TRUE, buckets |-> coll]
  ELSE LET nd == nodes[Len(nodes)]
           nchild == IF h[nd].m_nchild = Uninit THEN g ELSE h[nd].m_nchild
       IN  IF nchild \notin 0..7 THEN [ok |-> FALSE, buckets |-> coll]
           ELSE fillBuckets(h, SubSeq(nodes, 1, Len(nodes) - 1), g,
                            [coll EXCEPT ![nchild] = Append(@, nd)])

\* getNodes(depth, starting_node, node_collection) on an empty collection
getNodesBucketed(h, depth, n, g) ==
  fillBuckets(h, getNodes(h, depth, n), g, EmptyBuckets)

(***************************************************************************)
(* SampleSelection.h                                                        *)
(***************************************************************************)
\* the loop over the neighbours without setCovered(true)
RECURSIVE coverNeighbors_NoCovered(_, _, _)
coverNeighbors_NoCovered(smp, nb, i) ==
  IF i > Len(nb) THEN smp
  ELSE coverNeighbors_NoCovered(
         [smp EXCEPT ![nb[i]].m_selected = FALSE,
                     ![nb[i]].m_ncovered = @ + 1],
         nb, i + 1)

\* the loop over the neighbours without setSelected(false)
RECURSIVE coverNeighbors_KeepsSelected(_, _, _)
coverNeighbors_KeepsSelected(smp, nb, i) ==
  IF i > Len(nb) THEN smp
  ELSE coverNeighbors_KeepsSelected(
         [smp EXCEPT ![nb[i]].m_covered = TRUE,
                     ![nb[i]].m_ncovered = @ + 1],
         nb, i + 1)

\* the loop over the neighbours without increaseNCovered()
RECURSIVE coverNeighbors_NoCount(_, _, _)
coverNeighbors_NoCount(smp, nb, i) ==
  IF i > Len(nb) THEN smp
  ELSE coverNeighbors_NoCount(
         [smp EXCEPT ![nb[i]].m_covered = TRUE,
                     ![nb[i]].m_selected = FALSE],
         nb, i + 1)

\* the loop run over every stored sample instead of the list nb
RECURSIVE coverNeighbors_Everything(_, _, _)
coverNeighbors_Everything(smp, nb, i) ==
  IF i > Len(smp) THEN smp
  ELSE coverNeighbors_Everything(
         [smp EXCEPT ![i].m_covered = TRUE,
                     ![i].m_selected = FALSE,
                     ![i].m_ncovered = @ + 1],
         nb, i + 1)

\* the loop over the neighbours: setCovered(true), setSelected(false),
\* increaseNCovered() on each element of the list nb, from index i on
RECURSIVE coverNeighbors(_, _, _)
coverNeighbors(smp, nb, i) ==
  IF i > Len(nb) THEN smp
  ELSE coverNeighbors(
         [smp EXCEPT ![nb[i]].m_covered = TRUE,
                     ![nb[i]].m_selected = FALSE,
                     ![nb[i]].m_ncovered = @ + 1],
         nb, i + 1)

\* the body of the greedy loop with the outlier test at 2 neighbours
greedyVisit_Outlier2(oct, h, it, st, s, par) ==
  LET neighbors == getNeighborsAt(oct, h, st.smp, it, st.smp[s].pos, par)
  IN  IF Len(neighbors) < 2
      THEN [st EXCEPT !.smp[s].m_selected = FALSE]
      ELSE [ smp |-> [coverNeighbors(st.smp, neighbors, 1)
                        EXCEPT ![s].m_selected = TRUE],
             nsel |-> st.nsel + 1 ]

\* the body of the greedy loop with the outlier test at 4 neighbours
greedyVisit_Outlier4(oct, h, it, st, s, par) ==
  LET neighbors == getNeighborsAt(oct, h, st.smp, it, st.smp[s].pos, par)
  IN  IF Len(neighbors) < 4
      THEN [st EXCEPT !.smp[s].m_selected = FALSE]
      ELSE [ smp |-> [coverNeighbors(st.smp, neighbors, 1)
                        EXCEPT ![s].m_selected = TRUE],
             nsel |-> st.nsel + 1 ]

\* the body of the greedy loop for one uncovered sample s of a leaf
greedyVisit(oct, h, it, st, s, par) ==
  LET neighbors == getNeighborsAt(oct, h, st.smp, it, st.smp[s].pos, par)
  IN  IF Len(neighbors) < 3
      THEN [st EXCEPT !.smp[s].m_selected = FALSE]
      ELSE [ smp |-> [coverNeighbors(st.smp, neighbors, 1)
                        EXCEPT ![s].m_selected = TRUE],
             nsel |-> st.nsel + 1 ]

\* the while loop of performSelection(cell, par) over a leaf's list
RECURSIVE greedyLeaf(_, _, _, _, _, _, _)
greedyLeaf(oct, h, it, st, pts, i, par) ==
  IF i > Len(pts) THEN st
  ELSE greedyLeaf(oct, h, it,
                  IF st.smp[pts[i]].m_covered = FALSE
                  THEN greedyVisit(oct, h, it, st, pts[i], par) ELSE st,
                  pts, i + 1, par)

\* performSelection(cell, par)
RECURSIVE performSelectionPar(_, _, _, _, _, _)
RECURSIVE performSelectionParChildren(_, _, _, _, _, _, _)
performSelectionPar(oct, h, it, st, cell, par) ==
  IF h[cell].m_depth > 0
  THEN performSelectionParChildren(oct, h, it, st, cell, par, 0)
  ELSE IF h[cell].m_npts > 0
  THEN greedyLeaf(oct, h, it, st, h[cell].m_points, 1, par)
  ELSE st
performSelectionParChildren(oct, h, it, st, cell, par, i) ==
  IF i > 7 THEN st
  ELSE performSelectionParChildren(oct, h, it,
         IF getChild(h, cell, i) # NULL
         THEN performSelectionPar(oct, h, it, st, getChild(h, cell, i), par)
         ELSE st,
         cell, par, i + 1)

\* performSelection(cell)
RECURSIVE performSelectionCell(_, _, _, _, _)
RECURSIVE performSelectionCellChildren(_, _, _, _, _, _)
performSelectionCell(oct, h, it, st, cell) ==
  IF h[cell].m_depth > it.m_activeDepth
  THEN performSelectionCellChildren(oct, h, it, st, cell, 0)
  ELSE performSelectionPar(oct, h, it, st, cell, cell)
performSelectionCellChildren(oct, h, it, st, cell, i) ==
  IF i > 7 THEN st
  ELSE performSelectionCellChildren(oct, h, it,
         IF getChild(h, cell, i) # NULL
         THEN performSelectionCell(oct, h, it, st, getChild(h, cell, i))
         ELSE st,
         cell, i + 1)

\* m_octree->getDepth() - floor(log2(m_octree->getSize() / (1.5 * d))) with
\* d = 2.1 * m_radius, i.e. size / (3.15 r) = (20 size) / (63 r)
DartDepthOf(oct, radius) ==
  oct.m_depth - FloorLog2(20 * oct.m_size, 63 * radius)

\* the samples stored in the leaves of the list, in order
RECURSIVE pointsOf(_, _, _)
pointsOf(h, leaves, i) ==
  IF i > Len(leaves) THEN <<>>
  ELSE h[leaves[i]].m_points \o pointsOf(h, leaves, i + 1)

Range(f) == { f[i] : i \in DOMAIN f }

\* the idx-th element (from 0) of a std::set of addresses, in address order
RECURSIVE NthOf(_, _)
NthOf(S, idx) ==
  LET m == CHOOSE a \in S : \A b \in S : a <= b
  IN  IF idx = 0 THEN m ELSE NthOf(S \ {m}, idx - 1)

(***************************************************************************)
(* Inputs.                                                                  *)
(***************************************************************************)
OctreeSize == pow2(OctreeDepth) * LeafSize

At(off) == << OctreeOrigin[1] + off[1], OctreeOrigin[2] + off[2],
              OctreeOrigin[3] + off[3] >>

InputPoints == { At(off) : off \in PointOffsets }

Batches == { [t \in 1..BatchLen |-> At(off)] : off \in BatchOffsets }

MaxSamples == BatchLen * MaxAdds

QueryPoints == InputPoints \cup { At(off) : off \in QueryOffsets }

\* the query points of the calls that take a query node or exceptions
CellQueryPoints == { At(off) : off \in QueryOffsets }

\* the exception sets handed to containsOnly: none, or the first sample
ExceptionSets == { {}, {1} }

\* radii handed to setR / to the selection constructor; the last one is the
\* side of the cube, the smallest radius setR refuses
Radii == { 1, 2, 3, 5, 9, 15, OctreeSize }

\* the radii with which a selection object is built: those of the setR
\* contract, 0 < r < size, for which the depth that the dart thrower computes
\* is not negative
SelectionRadii ==
  { r \in Radii : r < OctreeSize /\ 20 * LeafSize < 63 * 2 * r }

NoIterator == [ m_activeDepth |-> 0, m_radius |-> 0, m_sqradius |-> 0 ]

\* TSampleSelection()
NoSelection ==
  [ m_radius |-> 0, m_sqradius |-> 0, m_nselected |-> 0,
    m_selected_samples |-> <<>> ]

NoDart ==
  [ depth |-> 0, node_collection |-> EmptyBuckets, i |-> 0, worker |-> <<>> ]

NoAccess == [ rd |-> <<>>, wr |-> <<>> ]

(***************************************************************************)
(* The state after the octree is constructed and initialize()d.             *)
(***************************************************************************)
Init ==
  /\ octree = NewOctree(OctreeOrigin, OctreeSize, OctreeDepth)
  /\ node = << NewNode(OctreeOrigin, OctreeSize, OctreeDepth) >>
  /\ sample = <<>>
  /\ iterator = NoIterator
  /\ selection = NoSelection
  /\ dart = NoDart
  /\ access = NoAccess
  /\ out = [op |-> "none"]
  /\ nadds = 0
  /\ pc = "build"

(***************************************************************************)
(* TOctree::addPoint(pt) and TOctree::addPoints(begin, end)                 *)
(***************************************************************************)
\* addPoint(pt) on the octree st = [oct, heap, smp]
addPoint(st, pt) ==
  LET r == AddPointDescend(st.heap, st.oct.m_nb_non_empty_cells,
                           st.oct.m_root, st.heap[st.oct.m_root].m_depth - 1,
                           << Code(st.oct, pt[1], 1), Code(st.oct, pt[2], 2),
                              Code(st.oct, pt[3], 3) >>)
      s == Len(st.smp) + 1
  IN  [ oct |-> [st.oct EXCEPT !.m_nb_non_empty_cells = r.cells,
                               !.m_npoints = @ + 1],
        heap |-> NodeAddPoint(r.heap, r.leaf, s),
        smp |-> Append(st.smp, NewSample(pt)) ]

\* the loop of addPoints over the batch, from index i on
RECURSIVE addPoints(_, _, _)
addPoints(st, batch, i) ==
  IF i > Len(batch) THEN st
  ELSE addPoints(addPoint(st, batch[i]), batch, i + 1)

AddPoint(pt) ==
  /\ pc = "build"
  /\ nadds < MaxAdds
  /\ LET st == addPoint([oct |-> octree, heap |-> node, smp |-> sample], pt)
     IN  /\ octree' = st.oct
         /\ node' = st.heap
         /\ sample' = st.smp
  /\ out' = [op |-> "addPoint"]
  /\ nadds' = nadds + 1
  /\ UNCHANGED <<iterator, selection, dart, access, pc>>

AddPoints(batch) ==
  /\ pc = "build"
  /\ nadds < MaxAdds
  /\ LET st == addPoints([oct |-> octree, heap |-> node, smp |-> sample],
                         batch, 1)
     IN  /\ octree' = st.oct
         /\ node' = st.heap
         /\ sample' = st.smp
         /\ out' = [ op |-> "addPoints", ret |-> st.oct.m_npoints,
                     before |-> octree.m_npoints ]
  /\ nadds' = nadds + 1
  /\ UNCHANGED <<iterator, selection, dart, access, pc>>

(***************************************************************************)
(* TOctree::getNodes(depth, root, node_collection) and the flat getNodes    *)
(***************************************************************************)
GetNodes(depth) ==
  /\ pc = "build"
  /\ LET flat == getNodes(node, depth, octree.m_root)
     IN  \E g \in NChildValues(node, flat) :
           LET res == getNodesBucketed(node, depth, octree.m_root, g)
           IN  out' = [ op |-> "getNodes", depth |-> depth, nodes |-> flat,
                        ok |-> res.ok, node_collection |-> res.buckets ]
  /\ pc' = "collected"
  /\ UNCHANGED <<nadds, octree, node, sample, iterator, selection, dart, access>>

(***************************************************************************)
(* main(): OctreeIterator iterator(&octree)                                 *)
(***************************************************************************)
CreateIterator ==
  /\ pc = "build"
  /\ iterator' = NewIterator(octree)
  /\ pc' = "ready"
  /\ UNCHANGED <<nadds, octree, node, sample, selection, dart, access, out>>

(***************************************************************************)
(* TOctreeIterator::setR(radius)                                            *)
(***************************************************************************)
SetR(radius) ==
  /\ pc = "ready"
  /\ \E res \in setR(iterator, octree, radius) :
       /\ iterator' = res.it
       /\ out' = [ op |-> "setR", radius |-> radius, ret |-> res.ret,
                   before |-> iterator ]
  /\ pc' = "tuned"
  /\ UNCHANGED <<nadds, octree, node, sample, selection, dart, access>>

(***************************************************************************)
(* TOctreeIterator::setDepth(depth)                                         *)
(***************************************************************************)
SetDepth(depth) ==
  /\ pc = "ready"
  /\ LET res == setDepth(iterator, octree, depth)
     IN  /\ iterator' = res.it
         /\ out' = [ op |-> "setDepth", depth |-> depth, ret |-> res.ret,
                     before |-> iterator ]
  /\ pc' = "leveled"
  /\ UNCHANGED <<nadds, octree, node, sample, selection, dart, access>>

(***************************************************************************)
(* TOctreeIterator::locatePointNode(point)                                  *)
(***************************************************************************)
LocatePointNode(point) ==
  /\ pc \in {"ready", "leveled"}
  /\ out' = [ op |-> "locatePointNode", point |-> point,
              node |-> locatePointNode(octree, node, iterator, point) ]
  /\ pc' = "located"
  /\ UNCHANGED <<nadds, octree, node, sample, iterator, selection, dart, access>>

(***************************************************************************)
(* TOctreeIterator::getNeighbors(query, neighbors)                          *)
(***************************************************************************)
GetNeighbors(query) ==
  /\ pc = "tuned"
  /\ out' = [ op |-> "getNeighbors", query |-> query,
              neighbors |-> getNeighbors(octree, node, sample, iterator,
                                         query) ]
  /\ pc' = "queried"
  /\ UNCHANGED <<nadds, octree, node, sample, iterator, selection, dart, access>>

(***************************************************************************)
(* TOctreeIterator::getNeighbors(query, query_node, neighbors) on a node    *)
(* the caller supplies: the cell of depth k on the way from the root to     *)
(* the query point                                                          *)
(***************************************************************************)
GetNeighborsAt(query, k) ==
  /\ pc = "tuned"
  /\ LET qn == traverseToLevel(node, octree.m_root,
                                computeCode(octree, query), k)
     IN  out' = [ op |-> "getNeighborsAt", query |-> query,
                  query_node |-> qn,
                  level |-> SearchLevel(node, iterator, qn),
                  neighbors |-> getNeighborsAt(octree, node, sample,
                                               iterator, query, qn) ]
  /\ pc' = "queried"
  /\ UNCHANGED <<nadds, octree, node, sample, iterator, selection, dart, access>>

(***************************************************************************)
(* TOctreeIterator::containsOnly(query, exceptions)                         *)
(***************************************************************************)
ContainsOnly(query, exceptions) ==
  /\ pc = "tuned"
  /\ out' = [ op |-> "containsOnly", query |-> query,
              exceptions |-> exceptions,
              ret |-> containsOnly(octree, node, sample, iterator, query,
                                   exceptions) ]
  /\ pc' = "queried"
  /\ UNCHANGED <<nadds, octree, node, sample, iterator, selection, dart, access>>

(***************************************************************************)
(* TOctreeIterator::getSortedNeighbors(query, neighbors), empty map         *)
(***************************************************************************)
GetSortedNeighbors(query) ==
  /\ pc = "tuned"
  /\ LET res == getSortedNeighbors(octree, node, sample, iterator, query,
                                    EmptyMap)
     IN  out' = [ op |-> "getSortedNeighbors", query |-> query,
                  neighbors |-> res.neighbors, ret |-> res.ret ]
  /\ pc' = "queried"
  /\ UNCHANGED <<nadds, octree, node, sample, iterator, selection, dart, access>>

(***************************************************************************)
(* TSampleSelection(radius, octree, iterator)                               *)
(***************************************************************************)
NewSelection(radius) ==
  /\ pc = "ready"
  /\ octree.m_npoints > 0
  /\ selection' = [ m_radius |-> radius, m_sqradius |-> radius * radius,
                    m_nselected |-> 0, m_selected_samples |-> <<>> ]
  /\ \E res \in setR(iterator, octree, radius) : iterator' = res.it
  /\ pc' = "sel"
  /\ UNCHANGED <<nadds, octree, node, sample, dart, access, out>>

(***************************************************************************)
(* TSampleSelection::performSelection()                                     *)
(***************************************************************************)
PerformSelection ==
  /\ pc = "sel"
  /\ LET st == performSelectionCell(octree, node, iterator,
                 [smp |-> sample, nsel |-> selection.m_nselected],
                 octree.m_root)
     IN  /\ sample' = st.smp
         /\ selection' = [selection EXCEPT !.m_nselected = st.nsel]
  /\ out' = [op |-> "performSelection", entry |-> sample]
  /\ pc' = "done"
  /\ UNCHANGED <<nadds, octree, node, iterator, dart, access>>

(***************************************************************************)
(* TSampleSelection::performDartThrowingSelection()                         *)
(***************************************************************************)
\* the workers of one pass: one per cell of the bucket, not yet started
WorkersOf(bucket) ==
  [ j \in 1..Len(bucket) |->
      [ node |-> bucket[j], st |-> "start", m_all_samples |-> {},
        nuncovered |-> 0, cell_selected_samples |-> <<>>,
        iterator |-> NoIterator ] ]

FreshAccess(n) == [ rd |-> [j \in 1..n |-> {}], wr |-> [j \in 1..n |-> {}] ]

\* the pass counter set back to the first bucket that holds a cell
NextPass_FromStart(coll, i) ==
  IF i >= 8 \/ \A b \in 0..7 : coll[b] = <<>> THEN 8
  ELSE CHOOSE b \in 0..7 :
         coll[b] # <<>> /\ \A c \in 0..(b - 1) : coll[c] = <<>>

\* the first pass from i on whose bucket holds a cell, 8 when there is none:
\* a pass over an empty bucket starts no worker, splices nothing and leaves
\* m_nselected as it is
RECURSIVE NextPass(_, _)
NextPass(coll, i) ==
  IF i >= 8 THEN 8
  ELSE IF coll[i] # <<>> THEN i
  ELSE NextPass(coll, i + 1)

\* up to the first parallel loop that has a worker to run: the depth, the 8
\* buckets, the passes over the empty buckets before it.  The call is the
\* first one on the selection object, or a second one right after the first
\* one returned.
DartBegin ==
  /\ \/ pc = "sel"
     \/ /\ pc = "done"
        /\ out.op = "performDartThrowingSelection"
        /\ out.run = 1
  /\ \E depth \in CastUnsigned(DartDepthOf(octree, selection.m_radius)) :
       LET flat == getNodes(node, depth, octree.m_root)
       IN  \E g \in NChildValues(node, flat) :
             LET res == getNodesBucketed(node, depth, octree.m_root, g)
                 i == NextPass(res.buckets, 0)
             IN  IF ~res.ok
                 THEN \* node_collection[nchild] outside the vector: undefined
                      /\ dart' = [dart EXCEPT !.depth = depth]
                      /\ access' = access
                      /\ selection' = selection
                      /\ pc' = "crashed"
                 ELSE IF i < 8
                 THEN /\ dart' = [ depth |-> depth,
                                   node_collection |-> res.buckets,
                                   i |-> i,
                                   worker |-> WorkersOf(res.buckets[i]) ]
                      /\ access' = FreshAccess(Len(res.buckets[i]))
                      /\ selection' = selection
                      /\ pc' = "dart"
                 ELSE /\ dart' = [ depth |-> depth,
                                   node_collection |-> res.buckets,
                                   i |-> 8, worker |-> <<>> ]
                      /\ access' = access
                      /\ selection' =
                           [selection EXCEPT !.m_nselected =
                              Len(selection.m_selected_samples)]
                      /\ pc' = "done"
  /\ out' = [ op |-> "performDartThrowingSelection", entry |-> sample,
              run |-> IF pc = "sel" THEN 1 ELSE 2,
              nsel |-> selection.m_nselected ]
  /\ UNCHANGED <<nadds, octree, node, sample, iterator>>

\* performDartThrowingSelection(cell, cell_selected_samples) up to the while
\* loop: the leaves under the cell, the local iterator, the uncovered samples
WorkerGather(j) ==
  /\ pc = "dart"
  /\ j \in DOMAIN dart.worker
  /\ dart.worker[j].st = "start"
  /\ LET w == dart.worker[j]
         leaves == getNodes(node, 0, w.node)
         pts == Range(pointsOf(node, leaves, 1))
         all == { s \in pts : ~sample[s].m_covered }
     IN  /\ \E res \in setR(NewIterator(octree), octree, selection.m_radius) :
               dart' = [dart EXCEPT ![ "worker" ][j] =
                          [ w EXCEPT !.iterator = res.it,
                                     !.m_all_samples = all,
                                     !.nuncovered = Cardinality(all),
                                     !.st = IF Cardinality(all) > 0
                                            THEN "loop" ELSE "done" ] ]
         /\ access' = [access EXCEPT !.rd[j] = @ \cup pts]
  /\ UNCHANGED <<nadds, octree, node, sample, iterator, selection, out, pc>>

\* one iteration of the while loop with std::rand() % nuncovered = idx
WorkerThrow(j, idx) ==
  /\ pc = "dart"
  /\ j \in DOMAIN dart.worker
  /\ dart.worker[j].st = "loop"
  /\ idx < dart.worker[j].nuncovered
  /\ LET w == dart.worker[j]
     IN  IF idx >= Cardinality(w.m_all_samples)
         THEN \* ++it past end(), *it: undefined
              /\ pc' = "crashed"
              /\ UNCHANGED <<sample, dart, access>>
         ELSE
           LET s == NthOf(w.m_all_samples, idx)
               rest == w.m_all_samples \ {s}
           IN  IF sample[s].m_covered
               THEN \* continue, nuncovered is not refreshed
                    /\ dart' = [dart EXCEPT ![ "worker" ][j].m_all_samples =
                                               rest]
                    /\ access' = [access EXCEPT !.rd[j] = @ \cup {s}]
                    /\ UNCHANGED <<sample, pc>>
               ELSE
                 LET neighbors == getNeighbors(octree, node, sample,
                                               w.iterator, sample[s].pos)
                     left == rest \ Range(neighbors)
                 IN  /\ sample' = [coverNeighbors(sample, neighbors, 1)
                                     EXCEPT ![s].m_selected = TRUE]
                     /\ dart' = [dart EXCEPT ![ "worker" ][j] =
                                  [ w EXCEPT
                                      !.m_all_samples = left,
                                      !.cell_selected_samples = Append(@, s),
                                      !.nuncovered = Cardinality(left),
                                      !.st = IF Cardinality(left) > 0
                                             THEN "loop" ELSE "done" ] ]
                     /\ access' = [access EXCEPT
                                     !.rd[j] = @ \cup {s},
                                     !.wr[j] = @ \cup Range(neighbors)
                                                 \cup {s}]
                     /\ pc' = pc
  /\ UNCHANGED <<nadds, octree, node, iterator, selection, out>>

\* the lists of the workers 1..n, spliced in order
RECURSIVE spliceAll(_, _)
spliceAll(worker, j) ==
  IF j > Len(worker) THEN <<>>
  ELSE worker[j].cell_selected_samples \o spliceAll(worker, j + 1)

\* the end of pass i: every worker is back, the lists are merged, m_nselected
\* is refreshed, and the next pass that has a worker starts (or the function
\* returns)
Merge ==
  /\ pc = "dart"
  /\ \A j \in DOMAIN dart.worker : dart.worker[j].st = "done"
  /\ LET merged == selection.m_selected_samples \o spliceAll(dart.worker, 1)
     IN  selection' = [selection EXCEPT !.m_selected_samples = merged,
                                        !.m_nselected = Len(merged)]
  /\ LET i == NextPass(dart.node_collection, dart.i + 1)
     IN  IF i < 8
         THEN /\ dart' = [dart EXCEPT
                            !.i = i,
                            !.worker = WorkersOf(dart.node_collection[i])]
              /\ access' = FreshAccess(Len(dart.node_collection[i]))
              /\ pc' = pc
         ELSE /\ dart' = [dart EXCEPT !.i = 8, !.worker = <<>>]
              /\ access' = NoAccess
              /\ pc' = "done"
  /\ UNCHANGED <<nadds, octree, node, sample, iterator, out>>

(***************************************************************************)
(* main(): FileIO::savePointsOFF(output, octree, selection.getNSelected())  *)
(***************************************************************************)
SavePointsOFF ==
  /\ pc = "done"
  /\ LET f == saveContent(node, sample, octree.m_root,
                          [lines |-> <<>>, ncover |-> 0])
     IN  out' = [ op |-> "savePointsOFF", engine |-> out.op,
                  nselected |-> selection.m_nselected,
                  lines |-> f.lines, ncovered |-> f.ncover ]
  /\ pc' = "saved"
  /\ UNCHANGED <<nadds, octree, node, sample, iterator, selection, dart, access>>

(***************************************************************************)
(* The program.                                                             *)
(***************************************************************************)
Next ==
  \/ \E pt \in InputPoints : AddPoint(pt)
  \/ \E batch \in Batches : AddPoints(batch)
  \/ \E depth \in 0..(OctreeDepth + 1) : GetNodes(depth)
  \/ CreateIterator
  \/ \E radius \in Radii : SetR(radius)
  \/ \E depth \in 0..(OctreeDepth + 1) : SetDepth(depth)
  \/ \E point \in QueryPoints : LocatePointNode(point)
  \/ \E query \in QueryPoints : GetNeighbors(query)
  \/ \E query \in CellQueryPoints, k \in 0..OctreeDepth :
       GetNeighborsAt(query, k)
  \/ \E query \in CellQueryPoints, exceptions \in ExceptionSets :
       ContainsOnly(query, exceptions)
  \/ \E query \in QueryPoints : GetSortedNeighbors(query)
  \/ \E radius \in SelectionRadii : NewSelection(radius)
  \/ PerformSelection
  \/ DartBegin
  \/ \E j \in 1..MaxAdds : WorkerGather(j)
  \/ \E j \in 1..MaxAdds, idx \in 0..(MaxSamples - 1) : WorkerThrow(j, idx)
  \/ Merge
  \/ SavePointsOFF

Spec == Init /\ [][Next]_vars

(***************************************************************************)
(* Vocabulary of the properties.                                            *)
(***************************************************************************)
Samples == 1..Len(sample)

DartDone == pc = "done" /\ out.op = "performDartThrowingSelection"

GreedyDone == pc = "done" /\ out.op = "performSelection"

\* s and t are at distance < r, r the radius of the selection
Near(s, t) ==
  dist2(sample[s].pos, sample[t].pos) < selection.m_radius * selection.m_radius

Selected == { s \in Samples : sample[s].m_selected }

Separated == \A s \in Selected, t \in Selected : s # t => ~Near(s, t)

\* the samples stored in the leaves under cell n
StoredUnder(n) == Range(pointsOf(node, getNodes(node, 0, n), 1))

\* the stored samples at distance < r of u, u included
NearCount(u) == Cardinality({ t \in Samples : Near(u, t) })

\* the samples with selected=true at distance < r of u
SelectedNear(u) == { s \in Selected : Near(s, u) }

(***************************************************************************)
(* C1: after performDartThrowingSelection() returns (fresh flags,           *)
(* 0 < r < size), no two distinct selected samples are at distance < r.     *)
(***************************************************************************)
C1_DartSeparation == DartDone => Separated

(***************************************************************************)
(* C2: after performDartThrowingSelection() returns, every sample with      *)
(* selected=false has covered=true and a selected sample at distance < r.   *)
(***************************************************************************)
C2_DartCoverage ==
  DartDone =>
    \A u \in Samples :
      ~sample[u].m_selected =>
        sample[u].m_covered /\ SelectedNear(u) # {}

\* a run that unselected a sample stored in another cell than the selected
\* sample that covers it
C2_Witness ==
  /\ DartDone
  /\ \E u \in Samples, s \in Selected, c \in 1..Len(node) :
       /\ ~sample[u].m_selected
       /\ Near(s, u)
       /\ node[c].m_depth = dart.depth
       /\ s \in StoredUnder(c)
       /\ u \notin StoredUnder(c)

(***************************************************************************)
(* C3: within one pass no sample's flags are written by one worker and      *)
(* read or written by another worker.                                       *)
(***************************************************************************)
C3_NoSharedFlagAccess ==
  pc = "dart" =>
    \A j \in DOMAIN access.wr, k \in DOMAIN access.wr :
      j # k => access.wr[j] \cap (access.rd[k] \cup access.wr[k]) = {}

\* two workers of one pass have both written flags, one of them the flags of
\* a sample stored outside its cell
C3_Witness ==
  /\ pc = "dart"
  /\ \E j \in DOMAIN access.wr, k \in DOMAIN access.wr :
       /\ j # k
       /\ access.wr[k] # {}
       /\ \E s \in access.wr[j] : s \notin StoredUnder(dart.worker[j].node)

(***************************************************************************)
(* C4: two distinct nodes that the bucketed getNodes(k, root, buckets)      *)
(* places in the same bucket have locational codes that differ by at least  *)
(* 2 * 2^k on some axis.                                                    *)
(***************************************************************************)
Abs(v) == IF v < 0 THEN 0 - v ELSE v

CodesApart(m, n, k) ==
  \/ Abs(node[m].m_xloc - node[n].m_xloc) >= 2 * pow2(k)
  \/ Abs(node[m].m_yloc - node[n].m_yloc) >= 2 * pow2(k)
  \/ Abs(node[m].m_zloc - node[n].m_zloc) >= 2 * pow2(k)

C4_SameBucketNotAdjacent ==
  (out.op = "getNodes" /\ out.ok) =>
    \A b \in 0..7 :
      \A p \in 1..Len(out.node_collection[b]),
         q \in 1..Len(out.node_collection[b]) :
        p # q => CodesApart(out.node_collection[b][p],
                            out.node_collection[b][q], out.depth)

C4_Witness ==
  /\ out.op = "getNodes"
  /\ out.ok
  /\ \E b \in 0..7 : Len(out.node_collection[b]) >= 2

(***************************************************************************)
(* C5: after the greedy performSelection() returns (fresh flags), no two    *)
(* distinct selected samples are at distance < r.                           *)
(***************************************************************************)
C5_GreedySeparation == GreedyDone => Separated

C5_Witness == GreedyDone /\ Cardinality(Selected) >= 2

(***************************************************************************)
(* C6: after the greedy performSelection() returns, every sample with       *)
(* selected=false is covered with a selected sample at distance < r, or is  *)
(* an outlier with fewer than 3 stored samples at distance < r.             *)
(***************************************************************************)
C6_GreedyCoverage ==
  GreedyDone =>
    \A u \in Samples :
      ~sample[u].m_selected =>
        \/ sample[u].m_covered /\ SelectedNear(u) # {}
        \/ NearCount(u) < 3

\* a run that left both a covered sample and an outlier unselected
C6_Witness ==
  /\ GreedyDone
  /\ \E u \in Samples :
       ~sample[u].m_selected /\ sample[u].m_covered /\ NearCount(u) >= 3
  /\ \E u \in Samples :
       ~sample[u].m_selected /\ ~sample[u].m_covered /\ NearCount(u) < 3

(***************************************************************************)
(* C7: after a run of either engine every sample with selected=false was    *)
(* already so at entry or has covered=true and ncovered >= 1.               *)
(***************************************************************************)
C7_Original ==
  pc = "done" =>
    \A u \in Samples :
      ~sample[u].m_selected =>
        \/ ~out.entry[u].m_selected
        \/ sample[u].m_covered /\ sample[u].m_ncovered >= 1

\* C7 as amended: ... or, under the greedy engine, the sample is an outlier
\* with fewer than 3 stored samples at distance < r
C7_Amended ==
  pc = "done" =>
    \A u \in Samples :
      ~sample[u].m_selected =>
        \/ ~out.entry[u].m_selected
        \/ sample[u].m_covered /\ sample[u].m_ncovered >= 1
        \/ out.op = "performSelection" /\ NearCount(u) < 3

\* a greedy run that unselected one sample by covering it and another as an
\* outlier
C7_Witness ==
  /\ pc = "done"
  /\ out.op = "performSelection"
  /\ \E u \in Samples :
       /\ out.entry[u].m_selected /\ ~sample[u].m_selected
       /\ sample[u].m_covered /\ sample[u].m_ncovered >= 1
  /\ \E u \in Samples :
       /\ out.entry[u].m_selected /\ ~sample[u].m_selected
       /\ ~sample[u].m_covered

(***************************************************************************)
(* C8: getNeighbors(q, out) appends every stored sample whose squared       *)
(* distance to q is < r^2, r the iterator's radius.                         *)
(***************************************************************************)
C8_NeighborCompleteness ==
  out.op = "getNeighbors" =>
    \A u \in Samples :
      dist2(out.query, sample[u].pos) < iterator.m_radius * iterator.m_radius
        => u \in Range(out.neighbors)

\* a query at the active depth that found a sample stored in another cell of
\* that depth
C8_Witness ==
  /\ out.op = "getNeighbors"
  /\ iterator.m_radius < octree.m_size
  /\ LET qn == locatePointNode(octree, node, iterator, out.query)
     IN  /\ node[qn].m_depth = iterator.m_activeDepth
         /\ \E u \in Range(out.neighbors) :
              locatePointNode(octree, node, iterator, sample[u].pos) # qn

(***************************************************************************)
(* C9: every sample getNeighbors appends has squared distance to the query  *)
(* strictly less than r^2; a sample at distance exactly r is not appended.  *)
(***************************************************************************)
C9_NeighborSoundness ==
  out.op = "getNeighbors" =>
    \A t \in 1..Len(out.neighbors) :
      dist2(out.query, sample[out.neighbors[t]].pos)
        < iterator.m_radius * iterator.m_radius

\* a query with a stored sample at distance exactly r and another one nearer
C9_Witness ==
  /\ out.op = "getNeighbors"
  /\ out.neighbors # <<>>
  /\ \E u \in Samples :
       dist2(out.query, sample[u].pos)
         = iterator.m_radius * iterator.m_radius

(***************************************************************************)
(* C10: after a run of either engine from fresh flags, ncovered(u) is the   *)
(* number of selected samples at distance < r of u, for every sample u.     *)
(***************************************************************************)
C10_CoverCount ==
  pc = "done" =>
    \A u \in Samples :
      sample[u].m_ncovered = Cardinality(SelectedNear(u))

(***************************************************************************)
(* C11: after any sequence of addPoint calls with points inside the cube,   *)
(* every inserted sample is stored in exactly one node, that node is a leaf *)
(* (depth 0), and origin <= p < origin + size holds on each axis.           *)
(***************************************************************************)
\* the nodes whose points list holds sample s
HoldersOf(s) == { n \in 1..Len(node) : s \in Range(node[n].m_points) }

C11_LeafContainment ==
  \A s \in Samples :
    /\ Cardinality(HoldersOf(s)) = 1
    /\ \A n \in HoldersOf(s) :
         /\ node[n].m_depth = 0
         /\ \A a \in 1..3 :
              /\ node[n].m_origin[a] <= sample[s].pos[a]
              /\ sample[s].pos[a] < node[n].m_origin[a] + node[n].m_size

\* samples stored in two leaves, one of them on the low face of a leaf that
\* is not on the low face of the cube
C11_Witness ==
  \E s \in Samples, t \in Samples :
    /\ HoldersOf(s) # HoldersOf(t)
    /\ \E n \in HoldersOf(s) :
         /\ sample[s].pos[1] = node[n].m_origin[1]
         /\ node[n].m_origin[1] # octree.m_origin[1]

(***************************************************************************)
(* C13: every live node of depth k has locational codes that are multiples  *)
(* of 2^k, origin = octree.origin + loc * (octree.size / 2^D) on each axis  *)
(* and size = octree.size / 2^(D-k); each non-null child has depth k-1 and  *)
(* the bits of its index (x bit 2, y bit 1, z bit 0) as its offset.         *)
(***************************************************************************)
LocOf(n) == << node[n].m_xloc, node[n].m_yloc, node[n].m_zloc >>

C13_LocCodeConsistency ==
  \A n \in 1..Len(node) :
    LET k == node[n].m_depth
    IN  /\ k \in 0..octree.m_depth
        /\ \A a \in 1..3 :
             /\ LocOf(n)[a] % pow2(k) = 0
             /\ node[n].m_origin[a] * pow2(octree.m_depth)
                  = octree.m_origin[a] * pow2(octree.m_depth)
                      + LocOf(n)[a] * octree.m_size
        /\ node[n].m_size * pow2(octree.m_depth - k) = octree.m_size
        /\ \A i \in 0..7 :
             LET c == node[n].m_child[i]
             IN  c # NULL =>
                   /\ node[c].m_depth = k - 1
                   /\ \A a \in 1..3 :
                        LocOf(c)[a] - LocOf(n)[a]
                          = Bit(i, 3 - a) * pow2(k - 1)

\* a tree with a leaf whose three codes are not 0 and an inner node with two
\* children
C13_Witness ==
  /\ \E n \in 1..Len(node) :
       /\ node[n].m_depth = 0
       /\ \A a \in 1..3 : LocOf(n)[a] # 0
  /\ \E n \in 1..Len(node) :
       Cardinality({ i \in 0..7 : node[n].m_child[i] # NULL }) >= 2

(***************************************************************************)
(* C12: for every point p inserted with addPoint, locatePointNode(p) with   *)
(* the iterator's active depth set to D, the octree depth, returns a leaf   *)
(* node whose points list contains p.                                       *)
(***************************************************************************)
\* the node returned is a leaf whose list holds a sample at the point
ReturnsLeafOf(n, point) ==
  /\ node[n].m_depth = 0
  /\ \E s \in Range(node[n].m_points) : sample[s].pos = point

Inserted(point) == \E s \in Samples : sample[s].pos = point

C12_Original ==
  ( /\ out.op = "locatePointNode"
    /\ iterator.m_activeDepth = octree.m_depth
    /\ Inserted(out.point) )
  => ReturnsLeafOf(out.node, out.point)

\* C12 as amended: ... with the iterator's active depth set to 0, the depth
\* of the leaves ...
C12_Amended ==
  ( /\ out.op = "locatePointNode"
    /\ iterator.m_activeDepth = 0
    /\ Inserted(out.point) )
  => ReturnsLeafOf(out.node, out.point)

\* an inserted point located at active depth 0 in a tree with several leaves
C12_Witness ==
  /\ out.op = "locatePointNode"
  /\ iterator.m_activeDepth = 0
  /\ Inserted(out.point)
  /\ out.node # octree.m_root
  /\ Cardinality({ n \in 1..Len(node) : node[n].m_depth = 0 }) >= 2

(***************************************************************************)
(* C14: for every r with 0 < r < size, setR(r) returns true and leaves the  *)
(* active depth d = D - floor(log2(size/(2r))), with 0 <= d <= D and the    *)
(* side of a depth-d cell >= 2r.                                            *)
(***************************************************************************)
\* side of a cell of depth k
CellSide(k) == octree.m_size \div pow2(octree.m_depth - k)

C14_SetRDepth ==
  (out.op = "setR" /\ 0 < out.radius /\ out.radius < octree.m_size) =>
    /\ out.ret
    /\ iterator.m_activeDepth \in 0..octree.m_depth
    /\ LET e == octree.m_depth - iterator.m_activeDepth
       IN  /\ 2 * out.radius * pow2(e) <= octree.m_size
           /\ octree.m_size < 2 * out.radius * pow2(e + 1)
    /\ CellSide(iterator.m_activeDepth) >= 2 * out.radius

(***************************************************************************)
(* C15: setR(r) with r not smaller than the bounding-box size returns false *)
(* and leaves the radius, the squared radius and the active depth           *)
(* unchanged.                                                               *)
(***************************************************************************)
C15_SetRFailure ==
  (out.op = "setR" /\ out.radius >= octree.m_size) =>
    /\ ~out.ret
    /\ iterator.m_radius = out.before.m_radius
    /\ iterator.m_sqradius = out.before.m_sqradius
    /\ iterator.m_activeDepth = out.before.m_activeDepth

\* a refused setR on the iterator of a tree that holds samples
C15_Witness ==
  /\ out.op = "setR"
  /\ out.radius >= octree.m_size
  /\ ~out.ret
  /\ octree.m_npoints > 0
  /\ iterator = NewIterator(octree)

(***************************************************************************)
(* C16: for every k <= D, setDepth(k) returns true, sets the active depth   *)
(* to k and the radius to size / 2^k, and the side of a depth-k cell is at  *)
(* least twice that radius.                                                 *)
(***************************************************************************)
C16_SetDepth ==
  (out.op = "setDepth" /\ out.depth <= octree.m_depth) =>
    /\ out.ret
    /\ iterator.m_activeDepth = out.depth
    /\ iterator.m_radius * pow2(out.depth) = octree.m_size
    /\ CellSide(out.depth) >= 2 * iterator.m_radius

(***************************************************************************)
(* C17: on an octree holding exactly two samples with identical             *)
(* coordinates, the greedy performSelection() ends with the first-scanned   *)
(* sample selected=true and the second covered=true and selected=false.     *)
(***************************************************************************)
TwoIdentical ==
  /\ Len(sample) = 2
  /\ sample[1].pos = sample[2].pos

C17_Original ==
  (GreedyDone /\ TwoIdentical) =>
    /\ sample[1].m_selected
    /\ sample[2].m_covered
    /\ ~sample[2].m_selected

\* C17 as amended: ... ends with both samples selected=false and
\* covered=false (each has 2 neighbours, fewer than 3, and is unselected as
\* an outlier), and getNSelected() = 0
C17_Amended ==
  (GreedyDone /\ TwoIdentical) =>
    /\ \A s \in Samples :
         /\ ~sample[s].m_selected
         /\ ~sample[s].m_covered
         /\ sample[s].m_ncovered = 0
    /\ selection.m_nselected = 0

\* a greedy run over two identical samples that started with both selected
C17_Witness ==
  /\ GreedyDone
  /\ TwoIdentical
  /\ \A s \in Samples : out.entry[s].m_selected /\ ~out.entry[s].m_covered

(***************************************************************************)
(* C18: if no two distinct stored samples are within distance r of each     *)
(* other, performDartThrowingSelection() selects every sample:              *)
(* getNSelected() is the number of stored samples and every sample ends     *)
(* with selected=true and ncovered=1.                                       *)
(***************************************************************************)
Isolated == \A s \in Samples, t \in Samples : s # t => ~Near(s, t)

C18_IsolatedAllSelected ==
  (DartDone /\ Isolated) =>
    /\ selection.m_nselected = Len(sample)
    /\ \A s \in Samples : sample[s].m_selected /\ sample[s].m_ncovered = 1

(***************************************************************************)
(* C19: getSortedNeighbors(q, out) called with an empty map inserts every   *)
(* stored sample with squared distance < r^2 to q and returns the number of *)
(* neighbours: the same set and the same count as getNeighbors(q, .).       *)
(***************************************************************************)
C19_SortedSameAsList ==
  out.op = "getSortedNeighbors" =>
    LET list == getNeighbors(octree, node, sample, iterator, out.query)
    IN  /\ { out.neighbors[d] : d \in DOMAIN out.neighbors } = Range(list)
        /\ out.ret = Len(list)

(***************************************************************************)
(* C20: after performDartThrowingSelection() returns on freshly loaded      *)
(* samples, getNSelected() is the number of stored samples with             *)
(* selected=true, so the count on the second line of the OFF file equals    *)
(* the number of sample lines savePointsOFF writes.                         *)
(***************************************************************************)
C20_CountMatchesLines ==
  (out.op = "savePointsOFF" /\ out.engine = "performDartThrowingSelection")
  => /\ selection.m_nselected = Cardinality(Selected)
     /\ out.nselected = Len(out.lines)

(***************************************************************************)
(* C21: after initialize and any sequence of addPoint calls, for every      *)
(* level k in 0..D-1 nb_non_empty_cells[k] is the number of live nodes of   *)
(* depth k, and npoints is the number of addPoint calls and the sum of npts *)
(* over all leaves.                                                         *)
(***************************************************************************)
NodesOfDepth(k) == { n \in 1..Len(node) : node[n].m_depth = k }

RECURSIVE SumNpts(_)
SumNpts(S) ==
  IF S = {} THEN 0
  ELSE LET n == CHOOSE m \in S : TRUE
       IN  node[n].m_npts + SumNpts(S \ {n})

C21_CellAndPointCounts ==
  /\ \A k \in 0..(octree.m_depth - 1) :
       octree.m_nb_non_empty_cells[k] = Cardinality(NodesOfDepth(k))
  /\ octree.m_npoints = Len(sample)
  /\ octree.m_npoints = SumNpts(NodesOfDepth(0))

\* a tree in which a later point went down a branch that an earlier point
\* had created, and in which a level holds several cells
C21_Witness ==
  /\ \E n \in NodesOfDepth(0) : node[n].m_npts >= 2
  /\ Cardinality(NodesOfDepth(0)) >= 2
  /\ Cardinality(NodesOfDepth(1)) >= 2

(***************************************************************************)
(* C22: addPoints(begin, end) returns the number of points added by that    *)
(* call, the length of the batch, also on an octree that already holds      *)
(* points.                                                                  *)
(***************************************************************************)
C22_AddPointsReturn ==
  out.op = "addPoints" =>
    /\ out.ret = BatchLen
    /\ out.ret = octree.m_npoints - out.before

(***************************************************************************)
(* C23: the 8 buckets are processed strictly in order 0..7: no worker of a  *)
(* later bucket starts before every worker of the current bucket has        *)
(* finished and the local lists are merged, and the global list of selected *)
(* samples and the selected count change only in the merge step, never      *)
(* while a worker is running.                                               *)
(***************************************************************************)
AllWorkersDone == \A j \in DOMAIN dart.worker : dart.worker[j].st = "done"

IsPrefix(a, b) == Len(a) <= Len(b) /\ SubSeq(b, 1, Len(a)) = a

C23_PassOrder ==
  [][ /\ (pc = "sel" /\ pc' = "dart") =>
           /\ \A b \in 0..(dart'.i - 1) : dart'.node_collection[b] = <<>>
           /\ selection' = selection
      /\ pc = "dart" =>
           /\ selection' # selection =>
                /\ AllWorkersDone
                /\ IsPrefix(selection.m_selected_samples,
                            selection'.m_selected_samples)
                /\ selection'.m_nselected = Len(selection'.m_selected_samples)
           /\ AllWorkersDone => dart'.i > dart.i
           /\ (dart'.i # dart.i \/ pc' = "done") =>
                /\ AllWorkersDone
                /\ dart'.node_collection = dart.node_collection
                /\ \A b \in (dart.i + 1)..(dart'.i - 1) :
                     dart.node_collection[b] = <<>>
                /\ \A j \in DOMAIN dart.worker :
                     \A t \in 1..Len(dart.worker[j].cell_selected_samples) :
                       dart.worker[j].cell_selected_samples[t]
                         \in Range(selection'.m_selected_samples)
           /\ dart'.i = dart.i =>
                /\ DOMAIN dart'.worker = DOMAIN dart.worker
                /\ \A j \in DOMAIN dart.worker :
                     dart'.worker[j].node = dart.worker[j].node
    ]_vars

\* a worker of a later pass is throwing darts while the list already holds
\* the samples merged at the end of an earlier pass
C23_Witness ==
  /\ pc = "dart"
  /\ \E b \in 0..(dart.i - 1) : dart.node_collection[b] # <<>>
  /\ selection.m_selected_samples # <<>>
  /\ selection.m_nselected = Len(selection.m_selected_samples)
  /\ \E j \in DOMAIN dart.worker : dart.worker[j].st = "loop"

(***************************************************************************)
(* C24: every call of performDartThrowingSelection() runs to completion     *)
(* under fair scheduling of the workers: each iteration of a worker's loop  *)
(* removes at least one sample from its working set, every worker reaches   *)
(* an empty set, and all 8 passes finish.  As a property of single steps:    *)
(* no step of a call aborts it, a step of a worker in its loop strictly     *)
(* shrinks its working set, and a worker stops only on an empty set.        *)
(***************************************************************************)
C24_DartCompletes ==
  [][ /\ out'.op = "performDartThrowingSelection" => pc' # "crashed"
      /\ pc = "dart" =>
           \A j \in DOMAIN dart.worker :
             (dart.worker[j].st = "loop" /\ dart'.worker[j] # dart.worker[j])
               => /\ dart'.worker[j].m_all_samples
                       \subseteq dart.worker[j].m_all_samples
                  /\ dart'.worker[j].m_all_samples
                       # dart.worker[j].m_all_samples
                  /\ dart'.worker[j].st = "done"
                       => dart'.worker[j].m_all_samples = {} ]_vars

(***************************************************************************)
(* C26: the bucketed getNodes(depth, start, buckets), called with an empty  *)
(* collection and any depth <= start.depth, the root's depth included,      *)
(* yields 8 buckets in which every node of the requested depth appears      *)
(* exactly once, in the bucket of its child_index, a value in 0..7; the     *)
(* union of the buckets is the result of the flat getNodes.                 *)
(***************************************************************************)
C26_BucketsPartition ==
  (out.op = "getNodes" /\ out.depth <= octree.m_depth) =>
    /\ out.ok
    /\ DOMAIN out.node_collection = 0..7
    /\ \A t \in 1..Len(out.nodes) :
         LET n == out.nodes[t]
         IN  /\ node[n].m_nchild \in 0..7
             /\ \A b \in 0..7 :
                  Cardinality({ u \in 1..Len(out.node_collection[b]) :
                                  out.node_collection[b][u] = n })
                    = IF b = node[n].m_nchild THEN 1 ELSE 0
    /\ UNION { Range(out.node_collection[b]) : b \in 0..7 } = Range(out.nodes)

(***************************************************************************)
(* C25: getNeighbors(q, query_node, out) searches the candidate cells at    *)
(* level s = max(query_node.depth, d), d the active depth, for every depth  *)
(* of the caller-supplied query_node, coarser and finer than d (d a level   *)
(* of the octree).                                                          *)
(***************************************************************************)
C25_SearchLevelIsMax ==
  (out.op = "getNeighborsAt" /\ iterator.m_activeDepth <= octree.m_depth) =>
    out.level = IF node[out.query_node].m_depth >= iterator.m_activeDepth
                THEN node[out.query_node].m_depth
                ELSE iterator.m_activeDepth

(***************************************************************************)
(* C27: in every getNeighbors, getSortedNeighbors and containsOnly call on  *)
(* a query node whose origin and size agree with its locational code, a     *)
(* left candidate code (loc - 1) is pushed on an axis only when the node's  *)
(* loc on that axis is > 0, and a right candidate code (loc + 2^depth) only *)
(* when it is < 2^D: the unsigned codes never underflow nor wrap around.    *)
(***************************************************************************)
NeighbourCalls ==
  { "getNeighbors", "getNeighborsAt", "getSortedNeighbors", "containsOnly" }

\* the query node of the call recorded in out
QueryNodeOf ==
  IF out.op = "getNeighborsAt" THEN out.query_node
  ELSE locatePointNode(octree, node, iterator, out.query)

\* the three lists of candidate codes of the call recorded in out
AxisLists ==
  << xlocList(octree, node, iterator, QueryNodeOf, out.query),
     ylocList(octree, node, iterator, QueryNodeOf, out.query),
     zlocList(octree, node, iterator, QueryNodeOf, out.query) >>

C27_CodesNeverWrap ==
  out.op \in NeighbourCalls =>
    LET qn == QueryNodeOf
    IN  \A a \in 1..3 :
          ( /\ node[qn].m_origin[a] * pow2(octree.m_depth)
                 = octree.m_origin[a] * pow2(octree.m_depth)
                     + LocOf(qn)[a] * octree.m_size
            /\ node[qn].m_size * pow2(octree.m_depth - node[qn].m_depth)
                 = octree.m_size )
          => \A t \in 2..Len(AxisLists[a]) :
               \/ /\ AxisLists[a][t] = LocOf(qn)[a] - 1
                  /\ LocOf(qn)[a] > 0
               \/ /\ AxisLists[a][t] = LocOf(qn)[a] + pow2(node[qn].m_depth)
                  /\ AxisLists[a][t] < pow2(octree.m_depth)

\* a call whose query ball sticks out of the cube on the left of an axis on
\* which the query node touches the cube's face, and which pushed a left
\* code on one axis and a right code on another
C27_Witness ==
  /\ out.op \in NeighbourCalls
  /\ \E a \in 1..3 :
       /\ LocOf(QueryNodeOf)[a] = 0
       /\ out.query[a] - iterator.m_radius < node[QueryNodeOf].m_origin[a]
  /\ \E a \in 1..3 : \E t \in 2..Len(AxisLists[a]) :
       AxisLists[a][t] = LocOf(QueryNodeOf)[a] - 1
  /\ \E a \in 1..3 : \E t \in 2..Len(AxisLists[a]) :
       AxisLists[a][t] = LocOf(QueryNodeOf)[a] + pow2(node[QueryNodeOf].m_depth)

(***************************************************************************)
(* C28: in every reachable state of a dart-throwing worker, under any       *)
(* interleaving with the other workers of its pass, every sample still in   *)
(* its working set U is uncovered: the "already covered" branch is never    *)
(* taken, the cached size nuncovered equals |U|, and the index drawn below  *)
(* nuncovered is below |U|.                                                 *)
(***************************************************************************)
C28_WorkingSetUncovered ==
  pc = "dart" =>
    \A j \in DOMAIN dart.worker :
      dart.worker[j].st = "loop" =>
        /\ \A s \in dart.worker[j].m_all_samples : ~sample[s].m_covered
        /\ dart.worker[j].nuncovered
             = Cardinality(dart.worker[j].m_all_samples)

\* a worker that has gathered a non-empty working set and is still in its
\* loop while another worker of the same pass has already written flags
C28_Witness ==
  /\ pc = "dart"
  /\ \E j, j2 \in DOMAIN dart.worker :
       /\ j # j2
       /\ dart.worker[j].st = "loop"
       /\ dart.worker[j].m_all_samples # {}
       /\ access.wr[j2] # {}

(***************************************************************************)
(* C29: a dart-throwing worker for cell c sets selected=true and appends    *)
(* to its output list only samples stored in leaves under c; it changes     *)
(* the selected, covered and ncovered flags only of samples at distance     *)
(* < r from some sample stored under c; the flags of every other sample     *)
(* and the octree structure are left unchanged.                             *)
(***************************************************************************)
\* the samples at distance < r of some sample stored under cell n
NearCell(n) == { s \in Samples : \E u \in StoredUnder(n) : Near(s, u) }

C29_WorkerFrame ==
  [][ (pc = "dart" /\ pc' \in {"dart", "crashed"} /\ dart'.i = dart.i) =>
        /\ node' = node
        /\ octree' = octree
        /\ Len(sample') = Len(sample)
        /\ \A s \in Samples : sample'[s].pos = sample[s].pos
        /\ sample' # sample =>
             \E j \in DOMAIN dart.worker : dart'.worker[j] # dart.worker[j]
        /\ \A j \in DOMAIN dart.worker :
             dart'.worker[j] # dart.worker[j] =>
               LET c == dart.worker[j].node
                   old == dart.worker[j].cell_selected_samples
                   new == dart'.worker[j].cell_selected_samples
               IN  /\ dart'.worker[j].node = c
                   /\ IsPrefix(old, new)
                   /\ \A t \in (Len(old) + 1)..Len(new) :
                        /\ new[t] \in StoredUnder(c)
                        /\ sample'[new[t]].m_selected
                   /\ \A s \in Samples :
                        (sample'[s].m_selected /\ ~sample[s].m_selected)
                          => s \in StoredUnder(c)
                   /\ \A s \in Samples :
                        sample'[s] # sample[s] => s \in NearCell(c)
                   /\ access'.wr[j] \ access.wr[j] \subseteq NearCell(c)
    ]_vars

\* a worker that has selected a sample of its cell and has written the flags
\* of a sample stored in another cell
C29_Witness ==
  /\ pc = "dart"
  /\ \E j \in DOMAIN dart.worker :
       /\ dart.worker[j].cell_selected_samples # <<>>
       /\ \E s \in access.wr[j] :
            /\ s \notin StoredUnder(dart.worker[j].node)
            /\ sample[s].m_covered

(***************************************************************************)
(* C30: running performDartThrowingSelection() a second time on the same    *)
(* TSampleSelection, right after a first run completed, changes no          *)
(* sample's selected, covered or ncovered flag and leaves getNSelected()    *)
(* unchanged.                                                               *)
(***************************************************************************)
C30_SecondRunChangesNothing ==
  (out.op = "performDartThrowingSelection" /\ out.run = 2) =>
    /\ sample = out.entry
    /\ pc = "done" => selection.m_nselected = out.nsel

\* a second run that completed after a first run had selected two samples
\* and covered a third
C30_Witness ==
  /\ DartDone
  /\ out.run = 2
  /\ selection.m_nselected >= 2
  /\ \E s \in Samples : sample[s].m_covered /\ ~sample[s].m_selected
  /\ \E b \in 0..7 : dart.node_collection[b] # <<>>

====
